---- MODULE Spec2Model ----
(***************************************************************************)
(* Model of apiserver/rest: DefaultStrategy, the capability-probing        *)
(* strategy adapter, and PrepareForUpdaterStrategy, the update-override    *)
(* wrapper (strategy.go), together with the object types of the test       *)
(* suite that implement the optional capability interfaces.                *)
(*                                                                         *)
(* The state is a small heap of resource objects, a DefaultStrategy value  *)
(* bound to an optional sample object, a PrepareForUpdaterStrategy value,  *)
(* and a record of the last hook invocation (arguments, result, the        *)
(* delegate calls it made, and the heap before the call).  thr holds the  *)
(* request threads of the concurrent specification: the hook each of them  *)
(* runs and how far it has got.                                            *)
(***************************************************************************)
EXTENDS Integers, Sequences, FiniteSets, TLC

VARIABLES objs, d, s, last, thr

vars == <<objs, d, s, last, thr>>

(***************************************************************************)
(* Bounds                                                                  *)
(***************************************************************************)
\* Longest collection handed to ConvertToTable.
MaxItems == 2

(***************************************************************************)
(* Object types (Go dynamic types) and their method sets                   *)
(***************************************************************************)
\* Capabilities *testObj implements through its own methods.
testObjCaps ==
  {"Scoper", "ObjectWithStatusSubResource", "PrepareForCreater",
   "PrepareForUpdater", "Validater", "ValidateUpdater", "Canonicalizer",
   "TableConverter"}

\* Method set of each dynamic type.  nameGen, scoper, allowCreate and
\* allowUnconditional embed testObj and so inherit its methods; testObjList
\* has no optional capability; "bare" is a runtime.Object that carries
\* neither ObjectMeta nor any capability (e.g. *metav1.Status); "plain" is
\* an object with TypeMeta and ObjectMeta and no capability.
Caps(kind) ==
  CASE kind = "testObj"                  -> testObjCaps
    [] kind = "nameGen"                  -> testObjCaps \cup {"NameGenerator"}
    [] kind = "scoper"                   -> testObjCaps
    [] kind = "allowCreate"              -> testObjCaps \cup {"AllowCreateOnUpdater"}
    [] kind = "allowUnconditional"       -> testObjCaps \cup {"AllowUnconditionalUpdater"}
    [] kind = "testObjList"              -> {}
    [] kind = "testObjListWithConvertor" -> {"TableConverter"}
    [] OTHER                             -> {}

\* The type assertion  obj.(Capability)  on a non-nil object value.
Implements(o, cap) == cap \in Caps(o.kind)

\* Types that carry metav1.ObjectMeta, i.e. for which meta.Accessor succeeds.
HasObjectMeta(o) ==
  o.kind \in {"testObj", "nameGen", "scoper", "allowCreate", "allowUnconditional",
              "plain"}

\* meta.IsListType: the type has an Items slice.
IsListType(o) == o.kind \in {"testObjList", "testObjListWithConvertor", "rawList"}

(***************************************************************************)
(* Object values                                                           *)
(***************************************************************************)
NilId == 0
ObjIds == {1, 2}

\* An object value.  created is the creation timestamp ("zero" is the zero
\* metav1.Time, "local" a non-UTC instant with a fractional second).
MkObj(kind, name, status, created, items) ==
  [kind |-> kind, name |-> name, status |-> status, flag |-> FALSE,
   created |-> created, rv |-> "7", cont |-> "", items |-> items]

SampleKinds ==
  {"testObj", "nameGen", "scoper", "allowCreate", "allowUnconditional",
   "testObjList"}
TargetKinds == {"testObj", "nameGen", "testObjList"}


(***************************************************************************)
(* Strings as sequences of characters                                      *)
(***************************************************************************)
Rep(c, n) == [i \in 1..n |-> c]

IsPrefix(p, q) == Len(p) <= Len(q) /\ SubSeq(q, 1, Len(p)) = p

(***************************************************************************)
(* Methods of the test object types                                        *)
(*   h is the heap, t the receiver's id                                    *)
(***************************************************************************)
\* (t *testObj) CopyStatusTo(obj): copies only when obj is exactly a *testObj.
testObj_CopyStatusTo(h, t, obj) ==
  IF h[obj].kind = "testObj" THEN [h EXCEPT ![obj].status = h[t].status] ELSE h

testObj_PrepareForCreate(h, t) == [h EXCEPT ![t].flag = TRUE]

testObj_PrepareForUpdate(h, t, old) == [h EXCEPT ![t].flag = TRUE]

testObj_Canonicalize(h, t) == [h EXCEPT ![t].flag = TRUE]

Invalid(path, value, detail) ==
  [Type |-> "FieldValueInvalid", Field |-> path, BadValue |-> value,
   Detail |-> detail]

NoErrors == << >>

testObj_Validate(o) == << Invalid("spec", "bad", "invalid") >>

testObj_ValidateUpdate(o, old) == << Invalid("spec", "bad", "invalid") >>

nameGen_GenerateName(base) == base \o <<"-", "G", "E", "N">>

\* NamespaceScoped of the object: *scoper overrides the promoted
\* (*testObj).NamespaceScoped.
obj_NamespaceScoped(o) == IF o.kind = "scoper" THEN FALSE ELSE TRUE

allowCreate_AllowCreateOnUpdate(o) == TRUE

allowUnconditional_AllowUnconditionalUpdate(o) == TRUE

(***************************************************************************)
(* Tables                                                                  *)
(***************************************************************************)
Col(name, type) == [Name |-> name, Type |-> type]

NoTable == [isNil |-> TRUE]
NoErr == [isNil |-> TRUE]

MkTable(cols, rows, rv, cont) ==
  [isNil |-> FALSE, ColumnDefinitions |-> cols, Rows |-> rows,
   ResourceVersion |-> rv, Continue |-> cont]

\* (t *testObj) ConvertToTable: ignores the table options.
testObj_ConvertToTable(o, tableOptions) ==
  [table |-> MkTable(<<Col("Name", "string"), Col("Status", "string")>>,
                     << [Cells |-> <<o.name, o.status>>, hasObject |-> FALSE] >>,
                     "", ""),
   err |-> NoErr]

\* (t *testObjListWithConvertor) ConvertToTable: one aggregate row; the
\* integer cell len(t.Items) is written as its decimal string.
testObjListWithConvertor_ConvertToTable(o, tableOptions) ==
  [table |-> MkTable(<<Col("Count", "integer"), Col("Resource", "string")>>,
                     << [Cells |-> <<ToString(Len(o.items)), "testobjs">>,
                         hasObject |-> FALSE] >>,
                     "", ""),
   err |-> NoErr]

\* Dispatch of c.ConvertToTable on the dynamic type of c.
obj_ConvertToTable(o, tableOptions) ==
  IF o.kind = "testObjListWithConvertor"
    THEN testObjListWithConvertor_ConvertToTable(o, tableOptions)
    ELSE testObj_ConvertToTable(o, tableOptions)

(***************************************************************************)
(* Collaborators from the host framework                                   *)
(***************************************************************************)
\* k8s.io/apiserver/pkg/storage/names: the generated name is at most
\* maxNameLength long, randomLength of which are the random suffix.
maxNameLength == 63
randomLength == 5
MaxGeneratedNameLength == maxNameLength - randomLength

\* names.SimpleNameGenerator.GenerateName(base); suffix is the value
\* utilrand.String(randomLength) happened to return.
SimpleNameGenerator_GenerateName(base, suffix) ==
  (IF Len(base) > MaxGeneratedNameLength
     THEN SubSeq(base, 1, MaxGeneratedNameLength)
     ELSE base) \o suffix

\* m.GetCreationTimestamp().Time.UTC().Format(time.RFC3339): the instant in
\* UTC, whole seconds.  "zero" is the zero metav1.Time, "local" stands for
\* 2025-01-01T01:00:00.5+01:00.
\* Variant: the instant is formatted in its own zone, UTC() is not applied.
FormatRFC3339_Local(created) ==
  IF created = "local" THEN "2025-01-01T01:00:00+01:00" ELSE "0001-01-01T00:00:00Z"

FormatRFC3339UTC(created) ==
  IF created = "local" THEN "2025-01-01T00:00:00Z" ELSE "0001-01-01T00:00:00Z"

\* http.StatusNotAcceptable
StatusNotAcceptable == 406

\* errNotAcceptable{resource: gr} together with its Status().
errNotAcceptable(gr) ==
  [isNil |-> FALSE, resource |-> gr, Status |-> "Failure",
   Code |-> StatusNotAcceptable, Reason |-> "NotAcceptable"]

GroupResource(group, resource) == [Group |-> group, Resource |-> resource]

(***************************************************************************)
(* DefaultStrategy: the hooks bound to the sample object                   *)
(*   dd is the strategy value, h the heap                                  *)
(***************************************************************************)
\* Variant: the sample object is never probed for NameGenerator.
GenerateName_NoProbe(dd, h, base, suffix) ==
  SimpleNameGenerator_GenerateName(base, suffix)

DefaultStrategy_GenerateName(dd, h, base, suffix) ==
  IF dd.Object = NilId
    THEN SimpleNameGenerator_GenerateName(base, suffix)
    ELSE IF Implements(h[dd.Object], "NameGenerator")
           THEN nameGen_GenerateName(base)
           ELSE SimpleNameGenerator_GenerateName(base, suffix)

\* Variant: a nil sample object is reported as cluster-scoped.
NamespaceScoped_NilFalse(dd, h) ==
  IF dd.Object = NilId
    THEN FALSE
    ELSE IF Implements(h[dd.Object], "Scoper")
           THEN obj_NamespaceScoped(h[dd.Object])
           ELSE TRUE

DefaultStrategy_NamespaceScoped(dd, h) ==
  IF dd.Object = NilId
    THEN TRUE
    ELSE IF Implements(h[dd.Object], "Scoper")
           THEN obj_NamespaceScoped(h[dd.Object])
           ELSE TRUE

DefaultStrategy_AllowCreateOnUpdate(dd, h) ==
  IF dd.Object = NilId
    THEN FALSE
    ELSE IF Implements(h[dd.Object], "AllowCreateOnUpdater")
           THEN allowCreate_AllowCreateOnUpdate(h[dd.Object])
           ELSE FALSE

DefaultStrategy_AllowUnconditionalUpdate(dd, h) ==
  IF dd.Object = NilId
    THEN FALSE
    ELSE IF Implements(h[dd.Object], "AllowUnconditionalUpdater")
           THEN allowUnconditional_AllowUnconditionalUpdate(h[dd.Object])
           ELSE FALSE

(***************************************************************************)
(* DefaultStrategy: the hooks on the per-call objects                      *)
(*   Each returns the heap after the call, the delegate calls made, in     *)
(*   order, and whether the call panicked.                                 *)
(***************************************************************************)
Call(m, recv, arg) == [m |-> m, recv |-> recv, arg |-> arg]

Outcome(h, calls, panicked) == [objs |-> h, calls |-> calls, panicked |-> panicked]

\* Variant: the capability is looked for on the object the strategy was
\* built from (id 1), the hook is run on the target.
PrepareForCreate_ProbesSample(h, obj) ==
  IF Implements(h[1], "PrepareForCreater")
    THEN Outcome(testObj_PrepareForCreate(h, obj),
                 << Call("PrepareForCreate", obj, NilId) >>, FALSE)
    ELSE Outcome(h, << >>, FALSE)

DefaultStrategy_PrepareForCreate(h, obj) ==
  IF Implements(h[obj], "PrepareForCreater")
    THEN Outcome(testObj_PrepareForCreate(h, obj),
                 << Call("PrepareForCreate", obj, NilId) >>, FALSE)
    ELSE Outcome(h, << >>, FALSE)

\* The status step: old.(ObjectWithStatusSubResource) is an unchecked type
\* assertion, which panics when old does not implement the interface.
StatusStep(h, obj, old) ==
  IF Implements(h[obj], "ObjectWithStatusSubResource")
    THEN IF Implements(h[old], "ObjectWithStatusSubResource")
           THEN Outcome(testObj_CopyStatusTo(h, old, obj),
                        << Call("CopyStatusTo", old, obj) >>, FALSE)
           ELSE Outcome(h, << >>, TRUE)
    ELSE Outcome(h, << >>, FALSE)

\* An Outcome together with the status the new object had when its
\* update-normalization hook was entered ("none" when it was not called).
WithSeen(r, seen) ==
  [objs |-> r.objs, calls |-> r.calls, panicked |-> r.panicked, seen |-> seen]

DefaultStrategy_PrepareForUpdate(h, obj, old) ==
  LET s1 == StatusStep(h, obj, old) IN
    IF s1.panicked
      THEN WithSeen(s1, "none")
      ELSE IF Implements(h[obj], "PrepareForUpdater")
             THEN WithSeen(Outcome(testObj_PrepareForUpdate(s1.objs, obj, old),
                                   Append(s1.calls, Call("PrepareForUpdate", obj, old)),
                                   FALSE),
                           s1.objs[obj].status)
             ELSE WithSeen(s1, "none")

DefaultStrategy_Canonicalize(h, obj) ==
  IF Implements(h[obj], "Canonicalizer")
    THEN Outcome(testObj_Canonicalize(h, obj),
                 << Call("Canonicalize", obj, NilId) >>, FALSE)
    ELSE Outcome(h, << >>, FALSE)

\* Validate and ValidateUpdate return the error list and the delegate calls.
DefaultStrategy_Validate(h, obj) ==
  IF Implements(h[obj], "Validater")
    THEN [errs |-> testObj_Validate(h[obj]),
          calls |-> << Call("Validate", obj, NilId) >>]
    ELSE [errs |-> NoErrors, calls |-> << >>]

\* Variant: the old object is probed instead of the new one.
ValidateUpdate_ProbesOld(h, obj, old) ==
  IF Implements(h[old], "ValidateUpdater")
    THEN [errs |-> testObj_ValidateUpdate(h[old], h[obj]),
          calls |-> << Call("ValidateUpdate", old, obj) >>]
    ELSE [errs |-> NoErrors, calls |-> << >>]

DefaultStrategy_ValidateUpdate(h, obj, old) ==
  IF Implements(h[obj], "ValidateUpdater")
    THEN [errs |-> testObj_ValidateUpdate(h[obj], h[old]),
          calls |-> << Call("ValidateUpdate", obj, old) >>]
    ELSE [errs |-> NoErrors, calls |-> << >>]

(***************************************************************************)
(* DefaultStrategy.ConvertToTable                                          *)
(***************************************************************************)
\* genericapirequest.RequestInfoFrom(ctx) and the GroupResource built from it.
RequestGroupResource(ctx) ==
  IF ctx.hasRequestInfo
    THEN GroupResource(ctx.APIGroup, ctx.Resource)
    ELSE GroupResource("", "")

\* The closure fn applied to one object: acc is the table under construction
\* (its rows), the error, and the number of objects fn has been applied to.
fn(ctx, o, acc) ==
  IF ~HasObjectMeta(o)
    THEN [acc EXCEPT !.err = errNotAcceptable(RequestGroupResource(ctx)),
                     !.visited = @ + 1]
    ELSE [acc EXCEPT !.rows = Append(@, [Cells |-> <<o.name, FormatRFC3339UTC(o.created)>>,
                                         hasObject |-> TRUE]),
                     !.visited = @ + 1]

\* Variant: the iteration goes on after fn has returned an error.
RECURSIVE EachListItem_NoStop(_, _, _, _)
EachListItem_NoStop(ctx, items, i, acc) ==
  IF i > Len(items)
    THEN acc
    ELSE EachListItem_NoStop(ctx, items, i + 1, fn(ctx, items[i], acc))

\* meta.EachListItem: applies fn to the items in order and returns at the
\* first error.
RECURSIVE EachListItem(_, _, _, _)
EachListItem(ctx, items, i, acc) ==
  IF i > Len(items)
    THEN acc
    ELSE LET a == fn(ctx, items[i], acc) IN
           IF ~a.err.isNil THEN a ELSE EachListItem(ctx, items, i + 1, a)

GenericColumns == <<Col("Name", "string"), Col("Created At", "date")>>

\* Variant: the table options are ignored.
Headers_Always(tableOptions) == GenericColumns

\* The column definitions chosen from the table options.
Headers(tableOptions) ==
  IF ~tableOptions.isTableOptions \/ ~tableOptions.NoHeaders
    THEN GenericColumns
    ELSE << >>

\* The generic path, taken when obj does not implement TableConverter.
GenericTable(ctx, o, tableOptions) ==
  LET acc0 == [rows |-> << >>, err |-> NoErr, visited |-> 0]
      acc  == IF IsListType(o)
                THEN EachListItem(ctx, o.items, 1, acc0)
                ELSE fn(ctx, o, acc0)
  IN IF ~acc.err.isNil
       THEN [table |-> NoTable, err |-> acc.err, calls |-> << >>,
             visited |-> acc.visited]
       ELSE [table |-> MkTable(Headers(tableOptions), acc.rows, o.rv,
                               IF IsListType(o) THEN o.cont ELSE ""),
             err |-> NoErr, calls |-> << >>, visited |-> acc.visited]

\* Variant: a collection is rendered item by item before it is probed for
\* TableConverter.
ConvertToTable_ListFirst(ctx, o, tableOptions) ==
  IF IsListType(o)
    THEN GenericTable(ctx, o, tableOptions)
    ELSE IF Implements(o, "TableConverter")
           THEN LET r == obj_ConvertToTable(o, tableOptions) IN
                  [table |-> r.table, err |-> r.err,
                   calls |-> << Call("ConvertToTable", NilId, NilId) >>,
                   visited |-> 0]
           ELSE GenericTable(ctx, o, tableOptions)

DefaultStrategy_ConvertToTable(ctx, o, tableOptions) ==
  IF Implements(o, "TableConverter")
    THEN LET r == obj_ConvertToTable(o, tableOptions) IN
           [table |-> r.table, err |-> r.err,
            calls |-> << Call("ConvertToTable", NilId, NilId) >>,
            visited |-> 0]
    ELSE GenericTable(ctx, o, tableOptions)

(***************************************************************************)
(* PrepareForUpdaterStrategy                                               *)
(*   ss is the wrapper value: the embedded RESTUpdateStrategy and the      *)
(*   OverrideFn ("nil" when unset)                                         *)
(***************************************************************************)
\* The OverrideFn of the test suite: records its arguments, changes nothing.
OverrideFn_record(ctx, h, obj, old) ==
  Outcome(h, << [m |-> "OverrideFn", ctx |-> ctx, recv |-> obj, arg |-> old] >>,
          FALSE)

\* Variant: without an OverrideFn the call falls through to the update
\* normalization of DefaultStrategy.
PrepareForUpdate_FallThrough(ss, ctx, h, obj, old) ==
  IF ss.OverrideFn # "nil"
    THEN OverrideFn_record(ctx, h, obj, old)
    ELSE DefaultStrategy_PrepareForUpdate(h, obj, old)

\* Variant: after the OverrideFn the call goes on to the wrapped strategy's
\* PrepareForUpdate.
PrepareForUpdate_AlsoWrapped(ss, ctx, h, obj, old) ==
  IF ss.OverrideFn # "nil"
    THEN LET r == OverrideFn_record(ctx, h, obj, old) IN
           IF ss.RESTUpdateStrategy = "DefaultStrategy"
             THEN LET w == DefaultStrategy_PrepareForUpdate(r.objs, obj, old) IN
                    Outcome(w.objs, r.calls \o w.calls, w.panicked)
             ELSE r
    ELSE Outcome(h, << >>, FALSE)

PrepareForUpdaterStrategy_PrepareForUpdate(ss, ctx, h, obj, old) ==
  IF ss.OverrideFn # "nil"
    THEN OverrideFn_record(ctx, h, obj, old)
    ELSE Outcome(h, << >>, FALSE)

(***************************************************************************)
(* Inputs                                                                  *)
(***************************************************************************)
Bases ==
  { <<"b", "a", "s", "e">>, << >>,
    Rep("a", MaxGeneratedNameLength), Rep("a", MaxGeneratedNameLength + 1) }

\* Values of utilrand.String(randomLength).
Suffixes == { <<"b", "c", "d", "f", "g">>, <<"x", "z", "2", "4", "5">> }

NoRequestInfo == [hasRequestInfo |-> FALSE, APIGroup |-> "", Resource |-> ""]
Ctxs == { NoRequestInfo,
          [hasRequestInfo |-> TRUE, APIGroup |-> "arc", Resource |-> "testobjs"] }

\* tableOptions: nil, or a *metav1.TableOptions.
NilOptions == [isTableOptions |-> FALSE, NoHeaders |-> FALSE]
TableOptionsSet ==
  { NilOptions,
    [isTableOptions |-> TRUE, NoHeaders |-> FALSE],
    [isTableOptions |-> TRUE, NoHeaders |-> TRUE] }

\* The i-th item of a collection: a testObj, or an object without ObjectMeta.
ItemName(i) == "obj" \o ToString(i)
ItemStatus(i) == IF i = 1 THEN "ready" ELSE IF i = 2 THEN "pending" ELSE "running"
ItemAt(i, hasMeta) ==
  IF hasMeta
    THEN MkObj("testObj", ItemName(i), ItemStatus(i),
               IF i % 2 = 0 THEN "local" ELSE "zero", << >>)
    ELSE MkObj("bare", "", "", "zero", << >>)

ItemSeqs ==
  UNION { { [i \in 1..n |-> ItemAt(i, metas[i])] : metas \in [1..n -> BOOLEAN] }
          : n \in 0..MaxItems }

MkList(kind, items) ==
  [MkObj(kind, "", "", "zero", items) EXCEPT !.cont = "c1"]

\* Collections: testObjList and testObjListWithConvertor hold testObj items,
\* rawList (Items of any runtime.Object) may hold objects without ObjectMeta.
ListTargets ==
  { MkList(k, items) :
      k \in {"testObjList", "testObjListWithConvertor"},
      items \in { q \in ItemSeqs : \A i \in 1..Len(q) : HasObjectMeta(q[i]) } }
  \cup { MkList("rawList", items) : items \in ItemSeqs }

BareObject == MkObj("bare", "", "", "zero", << >>)

PlainObject == MkObj("plain", "plain-object", "", "local", << >>)

(***************************************************************************)
(* Construction                                                            *)
(***************************************************************************)
NewDefaultStrategy(obj, objTyper, gr) ==
  [Object |-> obj, ObjectTyper |-> objTyper, TableConvertor |-> gr]

\* The literal DefaultStrategy{}.
ZeroDefaultStrategy ==
  [Object |-> NilId, ObjectTyper |-> "nil", TableConvertor |-> "nil"]

NoObject == [kind |-> "nil"]

\* The record of a hook invocation, before its fields are filled in.
Blank ==
  [op |-> "none", obj |-> NilId, old |-> NilId, base |-> << >>,
   ctx |-> NoRequestInfo, target |-> NoObject, opts |-> NilOptions,
   ret |-> "none", table |-> NoTable, err |-> NoErr, calls |-> << >>,
   panicked |-> FALSE, visited |-> 0, seen |-> "none", pre |-> << >>]

\* No request threads: the hooks are invoked one after another.
NoThreads == << >>

Init ==
  /\ \E k1 \in SampleKinds, k2 \in TargetKinds :
       objs = [i \in ObjIds |->
                 IF i = 1 THEN MkObj(k1, "new", "new-status", "zero", << >>)
                          ELSE MkObj(k2, "old", "old-status", "local", << >>)]
  /\ d \in { ZeroDefaultStrategy,
             NewDefaultStrategy(1, "nil", GroupResource("arc", "testobjs")) }
  /\ s \in [RESTUpdateStrategy : {"nil", "DefaultStrategy"},
            OverrideFn : {"nil", "record"}]
  /\ last = Blank
  /\ thr = NoThreads

(***************************************************************************)
(* Actions: one per hook invocation                                        *)
(***************************************************************************)
GenerateName ==
  \E base \in Bases, suffix \in Suffixes :
    /\ last' = [Blank EXCEPT !.op = "GenerateName", !.base = base,
                             !.ret = DefaultStrategy_GenerateName(d, objs, base, suffix),
                             !.pre = objs]
    /\ UNCHANGED <<objs, d, s, thr>>

NamespaceScoped ==
  /\ last' = [Blank EXCEPT !.op = "NamespaceScoped",
                           !.ret = DefaultStrategy_NamespaceScoped(d, objs),
                           !.pre = objs]
  /\ UNCHANGED <<objs, d, s, thr>>

AllowCreateOnUpdate ==
  /\ last' = [Blank EXCEPT !.op = "AllowCreateOnUpdate",
                           !.ret = DefaultStrategy_AllowCreateOnUpdate(d, objs),
                           !.pre = objs]
  /\ UNCHANGED <<objs, d, s, thr>>

AllowUnconditionalUpdate ==
  /\ last' = [Blank EXCEPT !.op = "AllowUnconditionalUpdate",
                           !.ret = DefaultStrategy_AllowUnconditionalUpdate(d, objs),
                           !.pre = objs]
  /\ UNCHANGED <<objs, d, s, thr>>

\* A hook that may change the heap: r is its Outcome.
Mutate(op, obj, old, r) ==
  /\ objs' = r.objs
  /\ last' = [Blank EXCEPT !.op = op, !.obj = obj, !.old = old,
                           !.calls = r.calls, !.panicked = r.panicked,
                           !.pre = objs]
  /\ UNCHANGED <<d, s, thr>>

PrepareForCreate ==
  \E obj \in ObjIds :
    Mutate("PrepareForCreate", obj, NilId, DefaultStrategy_PrepareForCreate(objs, obj))

PrepareForUpdate ==
  \E obj \in ObjIds, old \in ObjIds :
    LET r == DefaultStrategy_PrepareForUpdate(objs, obj, old) IN
      /\ objs' = r.objs
      /\ last' = [Blank EXCEPT !.op = "PrepareForUpdate", !.obj = obj, !.old = old,
                               !.calls = r.calls, !.panicked = r.panicked,
                               !.seen = r.seen, !.pre = objs]
      /\ UNCHANGED <<d, s, thr>>

Canonicalize ==
  \E obj \in ObjIds :
    Mutate("Canonicalize", obj, NilId, DefaultStrategy_Canonicalize(objs, obj))

Validate ==
  \E obj \in ObjIds :
    LET r == DefaultStrategy_Validate(objs, obj) IN
      /\ last' = [Blank EXCEPT !.op = "Validate", !.obj = obj, !.ret = r.errs,
                               !.calls = r.calls, !.pre = objs]
      /\ UNCHANGED <<objs, d, s, thr>>

ValidateUpdate ==
  \E obj \in ObjIds, old \in ObjIds :
    LET r == DefaultStrategy_ValidateUpdate(objs, obj, old) IN
      /\ last' = [Blank EXCEPT !.op = "ValidateUpdate", !.obj = obj, !.old = old,
                               !.ret = r.errs, !.calls = r.calls, !.pre = objs]
      /\ UNCHANGED <<objs, d, s, thr>>

ConvertToTable ==
  \E ctx \in Ctxs, tableOptions \in TableOptionsSet,
     o \in { objs[i] : i \in ObjIds } \cup { BareObject, PlainObject }
             \cup ListTargets :
    LET r == DefaultStrategy_ConvertToTable(ctx, o, tableOptions) IN
      /\ last' = [Blank EXCEPT !.op = "ConvertToTable", !.ctx = ctx, !.target = o,
                               !.opts = tableOptions, !.table = r.table,
                               !.err = r.err, !.calls = r.calls,
                               !.visited = r.visited, !.pre = objs]
      /\ UNCHANGED <<objs, d, s, thr>>

\* s.PrepareForUpdate on the PrepareForUpdaterStrategy wrapper.
OverridePrepareForUpdate ==
  \E ctx \in Ctxs, obj \in ObjIds, old \in ObjIds :
    LET r == PrepareForUpdaterStrategy_PrepareForUpdate(s, ctx, objs, obj, old) IN
      /\ objs' = r.objs
      /\ last' = [Blank EXCEPT !.op = "OverridePrepareForUpdate", !.ctx = ctx,
                               !.obj = obj, !.old = old, !.calls = r.calls,
                               !.panicked = r.panicked, !.pre = objs]
      /\ UNCHANGED <<d, s, thr>>

Next ==
  \/ GenerateName
  \/ NamespaceScoped
  \/ PrepareForCreate
  \/ PrepareForUpdate
  \/ Validate
  \/ ValidateUpdate
  \/ AllowCreateOnUpdate
  \/ AllowUnconditionalUpdate
  \/ Canonicalize
  \/ OverridePrepareForUpdate

\* The lifecycle hooks, invoked in any order on the objects of the heap.
Spec == Init /\ [][Next]_vars

\* Table rendering: ConvertToTable reads its arguments and writes nothing, so
\* it is checked on its own over all renderable targets.
InitTable == Init /\ s = [RESTUpdateStrategy |-> "nil", OverrideFn |-> "nil"]

NextTable == ConvertToTable

SpecTable == InitTable /\ [][NextTable]_vars

(***************************************************************************)
(* Properties                                                              *)
(***************************************************************************)
StatusCap == "ObjectWithStatusSubResource"

\* C1: when DefaultStrategy.PrepareForUpdate(new, old) returns and new
\* implements the status-subresource capability, new's status equals the
\* status old had when the call was made.
C1_StatusEqualsOld ==
  (last.op = "PrepareForUpdate" /\ ~last.panicked
     /\ Implements(last.pre[last.obj], StatusCap))
    => objs[last.obj].status = last.pre[last.old].status

\* C2: every DefaultStrategy hook completes without panic, whatever
\* capabilities the sample, the new and the old object have.
C2_HooksTotal ==
  last.op \in {"GenerateName", "NamespaceScoped", "PrepareForCreate",
               "PrepareForUpdate", "Validate", "ValidateUpdate",
               "AllowCreateOnUpdate", "AllowUnconditionalUpdate",
               "Canonicalize"}
    => ~last.panicked

\* The items of a collection all implement the tabular-rendering capability.
ItemsRenderable(o) ==
  \A i \in 1..Len(o.items) : Implements(o.items[i], "TableConverter")

\* C3: ConvertToTable on a non-empty collection that does not implement the
\* tabular-rendering capability but whose items do returns one row per item,
\* in order, each the row of the item's own ConvertToTable, under the items'
\* column definitions.
C3_PerItemRows ==
  (last.op = "ConvertToTable" /\ IsListType(last.target)
     /\ ~Implements(last.target, "TableConverter")
     /\ Len(last.target.items) > 0 /\ ItemsRenderable(last.target)
     /\ ~last.opts.NoHeaders)
    => /\ ~last.table.isNil
       /\ Len(last.table.Rows) = Len(last.target.items)
       /\ \A i \in 1..Len(last.target.items) :
            last.table.Rows[i].Cells =
              obj_ConvertToTable(last.target.items[i], last.opts).table.Rows[1].Cells
       /\ last.table.ColumnDefinitions =
            obj_ConvertToTable(last.target.items[1], last.opts).table.ColumnDefinitions

\* C4: ConvertToTable on a target that itself implements the
\* tabular-rendering capability calls that implementation exactly once and
\* returns its table and error unchanged; a collection that implements it
\* yields its single aggregate row, not one row per item.
C4_DelegatesToTarget ==
  (last.op = "ConvertToTable" /\ Implements(last.target, "TableConverter"))
    => /\ last.calls = << Call("ConvertToTable", NilId, NilId) >>
       /\ last.table = obj_ConvertToTable(last.target, last.opts).table
       /\ last.err = obj_ConvertToTable(last.target, last.opts).err
       /\ last.visited = 0
       /\ IsListType(last.target) =>
            /\ Len(last.table.Rows) = 1
            /\ last.table.Rows[1].Cells =
                 <<ToString(Len(last.target.items)), "testobjs">>
            /\ last.table.ColumnDefinitions =
                 <<Col("Count", "integer"), Col("Resource", "string")>>

C4_Witness ==
  /\ last.op = "ConvertToTable"
  /\ last.target.kind = "testObjListWithConvertor"
  /\ Len(last.target.items) >= 2
  /\ ~last.table.isNil
  /\ Len(last.table.Rows) = 1
  /\ last.calls = << Call("ConvertToTable", NilId, NilId) >>

\* The objects the generic path applies fn to, in order.
Rendered(o) == IF IsListType(o) THEN o.items ELSE << o >>

NoMeta(o) == { i \in 1..Len(Rendered(o)) : ~HasObjectMeta(Rendered(o)[i]) }

FirstNoMeta(o) == CHOOSE i \in NoMeta(o) : \A j \in NoMeta(o) : i <= j

\* C5: on the generic path, when the metadata accessor fails for the single
\* object or for an item of the collection, ConvertToTable returns no table
\* and the not-acceptable error (406, NotAcceptable) with the group/resource
\* of the request info, or an empty one when there is no request info, and
\* has stopped at the first failing item.
C5_NotAcceptable ==
  (last.op = "ConvertToTable" /\ ~Implements(last.target, "TableConverter")
     /\ NoMeta(last.target) # {})
    => /\ last.table.isNil
       /\ ~last.err.isNil
       /\ last.err.Code = 406
       /\ last.err.Reason = "NotAcceptable"
       /\ last.err.resource =
            (IF last.ctx.hasRequestInfo
               THEN [Group |-> last.ctx.APIGroup, Resource |-> last.ctx.Resource]
               ELSE [Group |-> "", Resource |-> ""])
       /\ last.visited = FirstNoMeta(last.target)

C5_Witness ==
  /\ last.op = "ConvertToTable"
  /\ last.target.kind = "rawList"
  /\ Len(last.target.items) >= 2
  /\ NoMeta(last.target) # {}
  /\ last.visited < Len(last.target.items)
  /\ last.ctx.hasRequestInfo
  /\ ~last.err.isNil
  /\ last.err.resource = [Group |-> "arc", Resource |-> "testobjs"]
  /\ last.table.isNil

NoHeadersRequested == last.opts.isTableOptions /\ last.opts.NoHeaders

\* C6 (as stated): every ConvertToTable call whose options request no
\* headers returns a table without column definitions.
C6_NoHeadersAlways ==
  (last.op = "ConvertToTable" /\ NoHeadersRequested /\ ~last.table.isNil)
    => last.table.ColumnDefinitions = << >>

\* C6 (amended): a ConvertToTable call whose options request no headers, on
\* a target that does not itself implement the tabular-rendering capability,
\* returns a table without column definitions (and with headers requested or
\* no options, the two generic columns).
C6_NoHeadersGeneric ==
  (last.op = "ConvertToTable" /\ ~Implements(last.target, "TableConverter")
     /\ ~last.table.isNil)
    => IF NoHeadersRequested
         THEN last.table.ColumnDefinitions = << >>
         ELSE Len(last.table.ColumnDefinitions) = 2

C6_Witness ==
  /\ last.op = "ConvertToTable"
  /\ NoHeadersRequested
  /\ ~Implements(last.target, "TableConverter")
  /\ ~last.table.isNil
  /\ Len(last.table.Rows) >= 2
  /\ last.table.ColumnDefinitions = << >>

\* The sample object is bound and is of one of the given types.
SampleIs(kinds) == d.Object # NilId /\ objs[d.Object].kind \in kinds

GenSuffix == <<"-", "G", "E", "N">>

C8_SampleOnly ==
  /\ last.op = "NamespaceScoped"
       => last.ret = (IF SampleIs({"scoper"}) THEN FALSE ELSE TRUE) /\ objs = last.pre
  /\ last.op = "AllowCreateOnUpdate"
       => last.ret = SampleIs({"allowCreate"}) /\ objs = last.pre
  /\ last.op = "AllowUnconditionalUpdate"
       => last.ret = SampleIs({"allowUnconditional"}) /\ objs = last.pre

\* The sample object has been the target of a mutating hook.
C8_Witness ==
  /\ last.op = "NamespaceScoped"
  /\ SampleIs({"scoper"})
  /\ objs[d.Object].flag
  /\ last.ret = FALSE

\* C9: Validate(obj) returns the error list of obj's validation capability,
\* or the empty list when obj lacks it; ValidateUpdate(new, old) probes new
\* only, passes old to new's capability and returns its list, or the empty
\* list when new lacks it even if old implements it.
C9_Validation ==
  /\ last.op = "Validate" =>
       /\ objs = last.pre
       /\ IF Implements(objs[last.obj], "Validater")
            THEN /\ last.ret = << [Type |-> "FieldValueInvalid", Field |-> "spec",
                                   BadValue |-> "bad", Detail |-> "invalid"] >>
                 /\ last.calls = << Call("Validate", last.obj, NilId) >>
            ELSE last.ret = << >> /\ last.calls = << >>
  /\ last.op = "ValidateUpdate" =>
       /\ objs = last.pre
       /\ IF Implements(objs[last.obj], "ValidateUpdater")
            THEN /\ last.ret = << [Type |-> "FieldValueInvalid", Field |-> "spec",
                                   BadValue |-> "bad", Detail |-> "invalid"] >>
                 /\ last.calls = << Call("ValidateUpdate", last.obj, last.old) >>
            ELSE last.ret = << >> /\ last.calls = << >>

\* new lacks the update-validation capability, old implements it.
C9_Witness ==
  /\ last.op = "ValidateUpdate"
  /\ ~Implements(objs[last.obj], "ValidateUpdater")
  /\ Implements(objs[last.old], "ValidateUpdater")
  /\ last.ret = << >>

\* C10: PrepareForUpdaterStrategy.PrepareForUpdate with OverrideFn nil, with
\* or without a wrapped strategy, does not panic and leaves the new and the
\* old object as they were.
C10_NilOverrideNoOp ==
  (last.op = "OverridePrepareForUpdate" /\ s.OverrideFn = "nil")
    => /\ ~last.panicked
       /\ objs[last.obj] = last.pre[last.obj]
       /\ objs[last.old] = last.pre[last.old]
       /\ last.calls = << >>

\* No wrapped strategy, and objects the wrapped hook would have changed.
C10_Witness ==
  /\ last.op = "OverridePrepareForUpdate"
  /\ s.OverrideFn = "nil"
  /\ s.RESTUpdateStrategy = "nil"
  /\ objs[last.obj].kind = "testObj"
  /\ objs[last.old].kind = "testObj"
  /\ objs[last.obj].status # objs[last.old].status
  /\ ~objs[last.obj].flag

\* C11: PrepareForUpdaterStrategy.PrepareForUpdate with an OverrideFn calls
\* it exactly once with the context, new and old object it was given and
\* does nothing else: the wrapped strategy's PrepareForUpdate is not called,
\* so no status is copied and no update-normalization hook of new runs.
C11_OverrideOnly ==
  (last.op = "OverridePrepareForUpdate" /\ s.OverrideFn # "nil")
    => /\ last.calls = << [m |-> "OverrideFn", ctx |-> last.ctx,
                           recv |-> last.obj, arg |-> last.old] >>
       /\ ~last.panicked
       /\ objs = last.pre

\* The wrapped strategy is a DefaultStrategy whose PrepareForUpdate would
\* have copied the status and set the flag.
C11_Witness ==
  /\ last.op = "OverridePrepareForUpdate"
  /\ s.OverrideFn # "nil"
  /\ s.RESTUpdateStrategy = "DefaultStrategy"
  /\ last.ctx.hasRequestInfo
  /\ last.obj # last.old
  /\ objs[last.obj].kind = "testObj"
  /\ objs[last.old].kind = "testObj"
  /\ objs[last.obj].status # objs[last.old].status
  /\ ~objs[last.obj].flag
  /\ Len(last.calls) = 1

\* C13: in DefaultStrategy.PrepareForUpdate, when new implements both the
\* status-subresource and the update-normalization capability, old's status
\* is copied first and the hook is then called exactly once with old, seeing
\* new's status equal to old's; without the update-normalization capability
\* only the copy runs, without the status capability only the hook.
C13_CopyThenHook ==
  last.op = "PrepareForUpdate" =>
    LET hasStatus == Implements(last.pre[last.obj], StatusCap)
        hasHook   == Implements(last.pre[last.obj], "PrepareForUpdater")
        copy      == Call("CopyStatusTo", last.old, last.obj)
        hook      == Call("PrepareForUpdate", last.obj, last.old)
    IN /\ (hasStatus /\ hasHook) =>
            /\ last.calls = << copy, hook >>
            /\ last.seen = last.pre[last.old].status
       /\ (hasStatus /\ ~hasHook) => last.calls = << copy >>
       /\ (~hasStatus /\ hasHook) => last.calls = << hook >>
       /\ (~hasStatus /\ ~hasHook) => last.calls = << >>

\* The creation timestamp as an RFC3339 string in UTC, whole seconds.
ExpectedTimestamp(o) ==
  IF o.created = "zero" THEN "0001-01-01T00:00:00Z" ELSE "2025-01-01T00:00:00Z"

TargetHookCap ==
  IF last.op = "PrepareForCreate" THEN "PrepareForCreater" ELSE "Canonicalizer"

TargetHookCalled == Implements(last.pre[last.obj], TargetHookCap)

\* C15 (as stated): PrepareForCreate(obj) and Canonicalize(obj) probe the
\* target only: when it implements the capability the hook is called exactly
\* once and the sample object is left untouched; when it does not, no hook
\* is called and the target is unchanged, whatever the sample implements.
C15_SampleUntouched ==
  last.op \in {"PrepareForCreate", "Canonicalize"} =>
    IF TargetHookCalled
      THEN /\ last.calls = << Call(last.op, last.obj, NilId) >>
           /\ d.Object # NilId => objs[d.Object] = last.pre[d.Object]
      ELSE /\ last.calls = << >>
           /\ objs = last.pre

\* C15 (amended): as stated, except that the sample object is left untouched
\* only when it is not itself the target of the call; the hook changes the
\* target and no other object.
C15_OnlyTargetTouched ==
  last.op \in {"PrepareForCreate", "Canonicalize"} =>
    IF TargetHookCalled
      THEN /\ last.calls = << Call(last.op, last.obj, NilId) >>
           /\ objs = [last.pre EXCEPT ![last.obj].flag = TRUE]
           /\ (d.Object # NilId /\ d.Object # last.obj)
                => objs[d.Object] = last.pre[d.Object]
      ELSE /\ last.calls = << >>
           /\ objs = last.pre

\* The target lacks the capability, the sample object implements it.
C15_Witness ==
  /\ last.op = "PrepareForCreate"
  /\ d.Object # NilId
  /\ d.Object # last.obj
  /\ Implements(objs[d.Object], "PrepareForCreater")
  /\ ~Implements(objs[last.obj], "PrepareForCreater")
  /\ last.calls = << >>
  /\ ~objs[last.obj].flag
  /\ ~objs[d.Object].flag

(***************************************************************************)
(* Concurrent requests                                                     *)
(*   Two request threads share one DefaultStrategy.  Each runs one hook on *)
(*   its own new and old object; a step is a delegate call or a return.    *)
(***************************************************************************)
ThreadIds == {1, 2}

NewOf(t) == 2 * t - 1
OldOf(t) == 2 * t

\* The sample object of the shared strategy is no thread's object.
SharedSampleId == 5
ConcIds == {1, 2, 3, 4, 5}

ConcOps ==
  {"GenerateName", "NamespaceScoped", "PrepareForCreate", "PrepareForUpdate",
   "Validate", "ValidateUpdate", "AllowCreateOnUpdate",
   "AllowUnconditionalUpdate", "Canonicalize", "ConvertToTable"}

ConcBase == <<"b", "a", "s", "e">>
ConcSuffix == <<"b", "c", "d", "f", "g">>

Result(h, ret, panicked) == [objs |-> h, ret |-> ret, panicked |-> panicked]

\* One whole hook call of the strategy dd on the heap h: the heap after it,
\* what it returned (for a hook without result, the delegate calls it made)
\* and whether it panicked.
HookResult(dd, h, op, obj, old) ==
  CASE op = "GenerateName" ->
         Result(h, DefaultStrategy_GenerateName(dd, h, ConcBase, ConcSuffix), FALSE)
    [] op = "NamespaceScoped" ->
         Result(h, DefaultStrategy_NamespaceScoped(dd, h), FALSE)
    [] op = "AllowCreateOnUpdate" ->
         Result(h, DefaultStrategy_AllowCreateOnUpdate(dd, h), FALSE)
    [] op = "AllowUnconditionalUpdate" ->
         Result(h, DefaultStrategy_AllowUnconditionalUpdate(dd, h), FALSE)
    [] op = "PrepareForCreate" ->
         LET r == DefaultStrategy_PrepareForCreate(h, obj) IN
           Result(r.objs, r.calls, r.panicked)
    [] op = "PrepareForUpdate" ->
         LET r == DefaultStrategy_PrepareForUpdate(h, obj, old) IN
           Result(r.objs, r.calls, r.panicked)
    [] op = "Canonicalize" ->
         LET r == DefaultStrategy_Canonicalize(h, obj) IN
           Result(r.objs, r.calls, r.panicked)
    [] op = "Validate" ->
         Result(h, DefaultStrategy_Validate(h, obj).errs, FALSE)
    [] op = "ValidateUpdate" ->
         Result(h, DefaultStrategy_ValidateUpdate(h, obj, old).errs, FALSE)
    [] op = "ConvertToTable" ->
         LET r == DefaultStrategy_ConvertToTable(NoRequestInfo, h[obj], NilOptions) IN
           Result(h, [table |-> r.table, err |-> r.err], FALSE)

InitConc ==
  /\ \E kn \in [ThreadIds -> TargetKinds],
        ko \in [ThreadIds -> {"testObj", "testObjList"}],
        ks \in {"scoper", "nameGen"} :
       objs = [i \in ConcIds |->
                 IF i = SharedSampleId
                   THEN MkObj(ks, "sample", "", "zero", << >>)
                   ELSE IF i % 2 = 1
                          THEN MkObj(kn[(i + 1) \div 2], "new", "new-status", "zero", << >>)
                          ELSE MkObj(ko[i \div 2], "old", "old-status", "local", << >>)]
  /\ d \in { ZeroDefaultStrategy,
             NewDefaultStrategy(SharedSampleId, "nil",
                                GroupResource("arc", "testobjs")) }
  /\ s = [RESTUpdateStrategy |-> "nil", OverrideFn |-> "nil"]
  /\ last = Blank
  /\ \E ops \in [ThreadIds -> ConcOps] :
       thr = [d0 |-> d, heap0 |-> objs,
              run |-> [t \in ThreadIds |->
                         [op |-> ops[t], pc |-> "start", ret |-> << >>,
                          panicked |-> FALSE]]]

\* Variant: the strategy keeps the object under update in its Object field
\* between the status copy and the update-normalization hook.
ThreadStep_SharedScratch(t) ==
  LET me  == thr.run[t]
      obj == NewOf(t)
      old == OldOf(t)
  IN
    \/ /\ me.pc = "start"
       /\ me.op = "PrepareForUpdate"
       /\ LET s1 == StatusStep(objs, obj, old) IN
            /\ objs' = s1.objs
            /\ thr' = [thr EXCEPT !.run[t] =
                         [me EXCEPT !.pc = IF s1.panicked THEN "done" ELSE "hook",
                                    !.ret = s1.calls,
                                    !.panicked = s1.panicked]]
       /\ d' = [d EXCEPT !.Object = obj]
       /\ UNCHANGED <<s, last>>
    \/ /\ me.pc = "hook"
       /\ IF d.Object # NilId /\ Implements(objs[d.Object], "PrepareForUpdater")
            THEN /\ objs' = testObj_PrepareForUpdate(objs, d.Object, old)
                 /\ thr' = [thr EXCEPT !.run[t] =
                              [me EXCEPT !.pc = "done",
                                         !.ret = Append(@, Call("PrepareForUpdate", d.Object, old))]]
            ELSE /\ objs' = objs
                 /\ thr' = [thr EXCEPT !.run[t].pc = "done"]
       /\ UNCHANGED <<d, s, last>>
    \/ /\ me.pc = "start"
       /\ me.op # "PrepareForUpdate"
       /\ LET r == HookResult(d, objs, me.op, obj, old) IN
            /\ objs' = r.objs
            /\ thr' = [thr EXCEPT !.run[t] =
                         [me EXCEPT !.pc = "done", !.ret = r.ret,
                                    !.panicked = r.panicked]]
       /\ UNCHANGED <<d, s, last>>

\* One step of request thread t.  PrepareForUpdate takes two: the status
\* copy (or the panic of the unchecked assertion), then the
\* update-normalization hook.  Every other hook makes at most one delegate
\* call and is one step.
ThreadStep(t) ==
  LET me  == thr.run[t]
      obj == NewOf(t)
      old == OldOf(t)
  IN
    \/ /\ me.pc = "start"
       /\ me.op = "PrepareForUpdate"
       /\ LET s1 == StatusStep(objs, obj, old) IN
            /\ objs' = s1.objs
            /\ thr' = [thr EXCEPT !.run[t] =
                         [me EXCEPT !.pc = IF s1.panicked THEN "done" ELSE "hook",
                                    !.ret = s1.calls,
                                    !.panicked = s1.panicked]]
       /\ UNCHANGED <<d, s, last>>
    \/ /\ me.pc = "hook"
       /\ IF Implements(objs[obj], "PrepareForUpdater")
            THEN /\ objs' = testObj_PrepareForUpdate(objs, obj, old)
                 /\ thr' = [thr EXCEPT !.run[t] =
                              [me EXCEPT !.pc = "done",
                                         !.ret = Append(@, Call("PrepareForUpdate", obj, old))]]
            ELSE /\ objs' = objs
                 /\ thr' = [thr EXCEPT !.run[t].pc = "done"]
       /\ UNCHANGED <<d, s, last>>
    \/ /\ me.pc = "start"
       /\ me.op # "PrepareForUpdate"
       /\ LET r == HookResult(d, objs, me.op, obj, old) IN
            /\ objs' = r.objs
            /\ thr' = [thr EXCEPT !.run[t] =
                         [me EXCEPT !.pc = "done", !.ret = r.ret,
                                    !.panicked = r.panicked]]
       /\ UNCHANGED <<d, s, last>>

NextConc == \E t \in ThreadIds : ThreadStep(t)

SpecConc == InitConc /\ [][NextConc]_vars

AllDone == \A t \in ThreadIds : thr.run[t].pc = "done"

\* The two calls run one after another, thread a first, from the initial heap.
InOrder(a, b) ==
  LET ra == HookResult(thr.d0, thr.heap0, thr.run[a].op, NewOf(a), OldOf(a))
      rb == HookResult(thr.d0, ra.objs, thr.run[b].op, NewOf(b), OldOf(b))
  IN [objs |-> rb.objs,
      ret |-> [t \in {a, b} |-> IF t = a THEN ra.ret ELSE rb.ret],
      panicked |-> [t \in {a, b} |-> IF t = a THEN ra.panicked ELSE rb.panicked]]

\* C12: no hook writes the fields of the shared DefaultStrategy, and when
\* two request threads have run their hooks on disjoint objects, in any
\* interleaving, every object and every result is what running the two calls
\* one after the other, in either order, gives.
C12_InterleavingsAgree ==
  /\ d = thr.d0
  /\ AllDone =>
       \A order \in { <<1, 2>>, <<2, 1>> } :
         LET q == InOrder(order[1], order[2]) IN
           /\ objs = q.objs
           /\ \A t \in ThreadIds :
                /\ thr.run[t].ret = q.ret[t]
                /\ thr.run[t].panicked = q.panicked[t]

\* Both threads have run PrepareForUpdate, the second thread's status copy
\* between the two steps of the first, and both objects were changed.
C12_Witness ==
  /\ AllDone
  /\ \A t \in ThreadIds :
       /\ thr.run[t].op = "PrepareForUpdate"
       /\ Len(thr.run[t].ret) = 2
       /\ objs[NewOf(t)].flag
       /\ objs[NewOf(t)].status = "old-status"
       /\ thr.heap0[NewOf(t)].status = "new-status"
  /\ d.Object = SharedSampleId
====
